---- MODULE Spec2Model ----
(***************************************************************************)
(* Model of the mongo-migrate orchestration engine (src/migrate.go,        *)
(* src/migration.go, src/versions.go): the migrator's copy of the          *)
(* migration set, the version ledger (a collection keyed by _id), and the  *)
(* Up / Down / SetVersion operations, one action per loop iteration.       *)
(***************************************************************************)
EXTENDS Integers, Sequences, FiniteSets, TLC

\* ------------------------------------------------------------------ bounds
MaxId == 3        \* migration ids are drawn from 1..MaxId
MaxLen == 3       \* largest migration set handed to NewMigrate
MaxN == 2         \* largest budget n passed to Up / Down
MaxNil == 1       \* nil Up / Down functions per migration set
MaxManual == 1    \* administrative SetVersion calls per behaviour

\* --------------------------------------------------------------- constants
AllAvailable == -1

Ids == 1..MaxId
NValues == AllAvailable..MaxN

\* A Migration embeds Version (ID, Description); Up / Down are TRUE when the
\* function is non-nil.  The description of migration k is the token k.
Migration == [ID : Ids, Description : Ids, Up : BOOLEAN, Down : BOOLEAN]

\* A ledger document.  Timestamp is time.Now() at insertion: the position of
\* the record in the ledger sequence stands for it.
Version(id, description) == [ID |-> id, Description |-> description]

\* ------------------------------------------------------- Migrations.Sort
\* Mutant: the comparator ignores the requested direction.
LessIgnoresDirection(a, b, direction) == a.ID > b.ID

Less(a, b, direction) ==
  IF direction = -1 THEN a.ID > b.ID ELSE a.ID < b.ID

RECURSIVE SortInsert(_, _, _)
SortInsert(m, s, direction) ==
  IF s = <<>> THEN <<m>>
  ELSE IF Less(m, Head(s), direction) THEN <<m>> \o s
  ELSE <<Head(s)>> \o SortInsert(m, Tail(s), direction)

\* Mutant: the slice is left in the order it had.
SortKeepsOrder(ms, direction) == ms

RECURSIVE Sort(_, _)
Sort(ms, direction) ==
  IF ms = <<>> THEN <<>>
  ELSE SortInsert(Head(ms), Sort(Tail(ms), direction), direction)

ContainsVersion(ms, version) == \E k \in 1..Len(ms) : ms[k].ID = version

\* ------------------------------------------------------------ the ledger
LedgerIds(l) == {l[k].ID : k \in 1..Len(l)}

\* Mutant: the lookup sorts by _id ascending and returns the lowest id.
CurrentVersionLowest(l) ==
  IF l = <<>> THEN 0
  ELSE CHOOSE v \in LedgerIds(l) : \A w \in LedgerIds(l) : v <= w

\* FindOne sorted by _id descending; ErrNoDocuments is reported as 0.
CurrentVersion(l) ==
  IF l = <<>> THEN 0
  ELSE CHOOSE v \in LedgerIds(l) : \A w \in LedgerIds(l) : w <= v

\* Mutant: the write replaces the first document of the collection
\* (a ReplaceOne with an empty filter and upsert).
InsertOneReplaces(l, rec, storeOk) ==
  IF ~storeOk THEN [err |-> TRUE, ledger |-> l]
  ELSE IF l = <<>> THEN [err |-> FALSE, ledger |-> <<rec>>]
  ELSE [err |-> FALSE, ledger |-> [l EXCEPT ![1] = rec]]

\* Mutant: the version is not the key of the document, any insert is taken.
InsertOneNoKey(l, rec, storeOk) ==
  IF storeOk
  THEN [err |-> FALSE, ledger |-> Append(l, rec)]
  ELSE [err |-> TRUE, ledger |-> l]

\* InsertOne of a document whose _id is the version: the store rejects a
\* duplicate _id, and may fail on its own (storeOk = FALSE).
InsertOne(l, rec, storeOk) ==
  IF storeOk /\ rec.ID \notin LedgerIds(l)
  THEN [err |-> FALSE, ledger |-> Append(l, rec)]
  ELSE [err |-> TRUE, ledger |-> l]

SetVersion(l, version, description, storeOk) ==
  InsertOne(l, Version(version, description), storeOk)

\* ----------------------------------------------------------- Up / Down
\* Mutant: the budget is always the whole set.
ClampAlwaysAll(nArg, len) == len

\* n <= 0 or n > len(m.migrations) means the whole set.
Clamp(nArg, len) == IF nArg <= 0 \/ nArg > len THEN len ELSE nArg

\* Mutant: the applied-already test is strict.
UpSkipsStrict(mn, cv) == mn.ID < cv \/ ~mn.Up

\* Mutant: only a nil Up is skipped, the version is not looked at.
UpSkipsNilOnly(mn, cv) == ~mn.Up

UpSkips(mn, cv) == mn.ID <= cv \/ ~mn.Up

\* Mutant: the version test of Down is strict.
DownSkipsStrict(mn, cv) == mn.ID < cv \/ ~mn.Down

DownSkips(mn, cv) == mn.ID <= cv \/ ~mn.Down

\* The record the first loop of Down hands to SetVersion after mn's down
\* action (prev is computed there and never used).
DownRecorded(mn) == Version(mn.ID, mn.Description)

Outcome(skipped, actOk, wrote, target, l, ret) ==
  [skipped |-> skipped, actOk |-> actOk, wrote |-> wrote, target |-> target,
   ledger |-> l, ret |-> ret]

\* Mutant: the error of the up action is dropped and the version recorded.
UpIterationDropsActionError(l, mn, cv, actOk, storeOk) ==
  IF UpSkips(mn, cv) THEN Outcome(TRUE, FALSE, FALSE, 0, l, "running")
  ELSE LET r == SetVersion(l, mn.ID, mn.Description, storeOk) IN
       Outcome(FALSE, actOk, ~r.err, mn.ID, r.ledger,
               IF r.err THEN "write" ELSE "running")

\* The body of the range loop of Up for migration mn, after n--.
\* ret = "running" means the loop goes on; anything else is the error
\* the call returns.
UpIteration(l, mn, cv, actOk, storeOk) ==
  IF UpSkips(mn, cv) THEN Outcome(TRUE, FALSE, FALSE, 0, l, "running")
  ELSE IF ~actOk THEN Outcome(FALSE, FALSE, FALSE, 0, l, "action")
  ELSE LET r == SetVersion(l, mn.ID, mn.Description, storeOk) IN
       Outcome(FALSE, TRUE, ~r.err, mn.ID, r.ledger,
               IF r.err THEN "write" ELSE "running")

\* Mutant: a failed down action does not end the loop.
DownIterationGoesOn(l, mn, cv, actOk, storeOk) ==
  IF DownSkips(mn, cv) THEN Outcome(TRUE, FALSE, FALSE, 0, l, "running")
  ELSE IF ~actOk THEN Outcome(FALSE, FALSE, FALSE, 0, l, "running")
  ELSE LET rec == DownRecorded(mn)
           r == SetVersion(l, rec.ID, rec.Description, storeOk)
       IN Outcome(FALSE, TRUE, ~r.err, rec.ID, r.ledger,
                  IF r.err THEN "write" ELSE "running")

\* The body of the range loop of Down (the first loop) for migration mn.
DownIteration(l, mn, cv, actOk, storeOk) ==
  IF DownSkips(mn, cv) THEN Outcome(TRUE, FALSE, FALSE, 0, l, "running")
  ELSE IF ~actOk THEN Outcome(FALSE, FALSE, FALSE, 0, l, "action")
  ELSE LET rec == DownRecorded(mn)
           r == SetVersion(l, rec.ID, rec.Description, storeOk)
       IN Outcome(FALSE, TRUE, ~r.err, rec.ID, r.ledger,
                  IF r.err THEN "write" ELSE "running")

\* The ids whose up action one Up call invokes when every action and every
\* ledger write succeeds: the range loop of Up from position k with budget
\* nLeft over the sorted set ms.
RECURSIVE UpInvokes(_, _, _, _)
UpInvokes(ms, k, nLeft, cv) ==
  IF k > Len(ms) \/ nLeft <= 0 THEN <<>>
  ELSE (IF UpSkips(ms[k], cv) THEN <<>> ELSE <<ms[k].ID>>)
         \o UpInvokes(ms, k + 1, nLeft - 1, cv)

VARIABLES
  supplied,    \* the slice the caller passed to NewMigrate
  migrations,  \* m.migrations: the migrator's clone, reordered by Sort
  ledger,      \* the documents of the migrations collection, oldest first
  pc,          \* "idle" | "up" | "down"
  curVer,      \* local curVer of the running call
  n,           \* local n of the running call (remaining budget)
  i,           \* 1-based position of the range loop
  call,        \* observer: the running or most recent call (storeUp: the
               \* store was reachable for an administrative SetVersion)
  step,        \* observer: the most recent loop iteration of that call
  prev,        \* observer: summary of the call before `call`
  manual,      \* administrative SetVersion calls made so far
  upDone,      \* observer: ids whose up action has returned nil since the
               \* last Down call, SetVersion call or failed ledger write
  redone       \* observer: an up action returned nil for an id in upDone

vars == <<supplied, migrations, ledger, pc, curVer, n, i, call, step, prev,
          manual, upDone, redone>>

NoStep == [op |-> "none", id |-> 0, skipped |-> FALSE, actOk |-> FALSE,
           wrote |-> FALSE, target |-> 0, verBefore |-> 0,
           ledgerBefore |-> <<>>]

NoCall == [op |-> "none", nReq |-> 1, startLedger |-> <<>>,
           invoked |-> <<>>, written |-> <<>>, ret |-> "ok", failId |-> 0,
           storeUp |-> TRUE]

\* What the next call remembers of the call before it: whether it was an
\* Up(AllAvailable) that returned nil (and from which ledger), or an Up that
\* a failed ledger write or a failed up action aborted (and at which
\* migration).
Summary(c) ==
  IF c.op = "up" /\ c.ret = "ok" /\ c.nReq = AllAvailable
  THEN [kind |-> "upAllOk", id |-> 0, startEmpty |-> (c.startLedger = <<>>)]
  ELSE IF c.op = "up" /\ c.ret = "write"
  THEN [kind |-> "upWriteFailed", id |-> c.failId, startEmpty |-> FALSE]
  ELSE IF c.op = "up" /\ c.ret = "action"
  THEN [kind |-> "upActionFailed", id |-> c.failId, startEmpty |-> FALSE]
  ELSE [kind |-> "other", id |-> 0, startEmpty |-> FALSE]

NewCall(o, nArg, l) == [op |-> o, nReq |-> nArg, startLedger |-> l,
                        invoked |-> <<>>, written |-> <<>>,
                        ret |-> "running", failId |-> 0, storeUp |-> TRUE]

\* Every sequence of at most MaxLen migrations with pairwise distinct ids.
MigrationOf(id, up, down) ==
  [ID |-> id, Description |-> id, Up |-> up, Down |-> down]

Wellformed == {MigrationOf(id, u, d) : id \in Ids, u \in BOOLEAN, d \in BOOLEAN}

NilCount(ms) ==
  Cardinality({k \in 1..Len(ms) : ~ms[k].Up})
    + Cardinality({k \in 1..Len(ms) : ~ms[k].Down})

Suppliable ==
  UNION {{s \in [1..k -> Wellformed] :
            /\ \A a, b \in 1..k : a # b => s[a].ID # s[b].ID
            /\ NilCount(s) <= MaxNil} : k \in 0..MaxLen}

\* NewMigrate: slices.Clone of the caller's slice, empty collection.
NewMigrate(ms) ==
  /\ supplied = ms
  /\ migrations = ms
  /\ ledger = <<>>

Init ==
  /\ \E ms \in Suppliable : NewMigrate(ms)
  /\ pc = "idle"
  /\ curVer = 0
  /\ n = 0
  /\ i = 1
  /\ call = NoCall
  /\ step = NoStep
  /\ prev = Summary(NoCall)
  /\ manual = 0
  /\ upDone = {}
  /\ redone = FALSE

\* ------------------------------------------------------------------- Up
UpBegin(nArg, readOk) ==
  /\ pc = "idle"
  /\ prev' = Summary(call)
  /\ step' = NoStep
  /\ IF readOk
     THEN /\ curVer' = CurrentVersion(ledger)
          /\ n' = Clamp(nArg, Len(migrations))
          /\ migrations' = Sort(migrations, 1)
          /\ i' = 1
          /\ pc' = "up"
          /\ call' = NewCall("up", nArg, ledger)
     ELSE /\ call' = [NewCall("up", nArg, ledger) EXCEPT !.ret = "read"]
          /\ UNCHANGED <<curVer, n, migrations, i, pc>>
  /\ UNCHANGED <<supplied, ledger, manual, upDone, redone>>

\* Records one loop iteration o for migration mn in the observers.
Observe(o, mn, kind) ==
  /\ step' = [op |-> kind, id |-> mn.ID, skipped |-> o.skipped,
              actOk |-> o.actOk, wrote |-> o.wrote, target |-> o.target,
              verBefore |-> CurrentVersion(ledger), ledgerBefore |-> ledger]
  /\ call' = [call EXCEPT
                !.invoked = IF o.skipped THEN @ ELSE Append(@, mn.ID),
                !.written = IF o.wrote THEN Append(@, o.target) ELSE @,
                !.ret = o.ret,
                !.failId = IF o.ret = "running" THEN 0 ELSE mn.ID]

UpStep(actOk, storeOk) ==
  /\ pc = "up"
  /\ i <= Len(migrations)
  /\ n > 0
  /\ LET mn == migrations[i]
         o == UpIteration(ledger, mn, curVer, actOk, storeOk)
     IN
     /\ ledger' = o.ledger
     /\ Observe(o, mn, "up")
     /\ pc' = (IF o.ret = "running" THEN "up" ELSE "idle")
     /\ n' = (IF o.ret = "running" THEN n - 1 ELSE 0)
     /\ i' = (IF o.ret = "running" THEN i + 1 ELSE 1)
     /\ redone' = (redone \/ (o.actOk /\ mn.ID \in upDone))
     /\ upDone' = (IF o.ret = "write" THEN {}
                   ELSE IF o.actOk THEN upDone \cup {mn.ID}
                   ELSE upDone)
  /\ UNCHANGED <<supplied, migrations, curVer, prev, manual>>

UpReturn ==
  /\ pc = "up"
  /\ (i > Len(migrations) \/ n <= 0)
  /\ pc' = "idle"
  /\ call' = [call EXCEPT !.ret = "ok"]
  /\ n' = 0
  /\ i' = 1
  /\ UNCHANGED <<supplied, migrations, ledger, curVer, step, prev, manual,
                 upDone, redone>>

\* ----------------------------------------------------------------- Down
DownBegin(nArg, readOk) ==
  /\ pc = "idle"
  /\ prev' = Summary(call)
  /\ step' = NoStep
  /\ IF readOk
     THEN /\ curVer' = CurrentVersion(ledger)
          /\ n' = Clamp(nArg, Len(migrations))
          /\ migrations' = Sort(migrations, -1)
          /\ i' = 1
          /\ pc' = "down"
          /\ call' = NewCall("down", nArg, ledger)
     ELSE /\ call' = [NewCall("down", nArg, ledger) EXCEPT !.ret = "read"]
          /\ UNCHANGED <<curVer, n, migrations, i, pc>>
  /\ upDone' = {}
  /\ UNCHANGED <<supplied, ledger, manual, redone>>

\* One iteration of the range loop of Down (the first loop).
DownStep(actOk, storeOk) ==
  /\ pc = "down"
  /\ i <= Len(migrations)
  /\ n > 0
  /\ LET mn == migrations[i]
         o == DownIteration(ledger, mn, curVer, actOk, storeOk)
     IN
     /\ ledger' = o.ledger
     /\ Observe(o, mn, "down")
     /\ pc' = (IF o.ret = "running" THEN "down" ELSE "idle")
     /\ n' = (IF o.ret = "running" THEN n - 1 ELSE 0)
     /\ i' = (IF o.ret = "running" THEN i + 1 ELSE 1)
  /\ UNCHANGED <<supplied, migrations, curVer, prev, manual, upDone, redone>>

\* The second loop of Down: for i, p := len-1, 0; i >= 0 && p < n; i--.
\* ix is the 0-based index of the source; st carries the ledger and the
\* observers; actFail / storeFail are the ids whose down action / whose
\* ledger write fails.
DownSecondSkips(migration, cv) == migration.ID > cv \/ ~migration.Down

RECURSIVE DownSecondLoop(_, _, _, _, _, _, _, _)
DownSecondLoop(ms, ix, p, nLeft, cv, st, actFail, storeFail) ==
  IF ~(ix >= 0 /\ p < nLeft) THEN st
  ELSE
    LET migration == ms[ix + 1]
        base == [NoStep EXCEPT !.op = "down", !.id = migration.ID,
                               !.verBefore = CurrentVersion(st.ledger),
                               !.ledgerBefore = st.ledger]
    IN
    IF DownSecondSkips(migration, cv)
    THEN DownSecondLoop(ms, ix - 1, p, nLeft, cv,
                        [st EXCEPT !.step = [base EXCEPT !.skipped = TRUE]],
                        actFail, storeFail)
    ELSE IF migration.ID \in actFail
    THEN [st EXCEPT !.step = base,
                    !.call.invoked = Append(@, migration.ID),
                    !.call.ret = "action",
                    !.call.failId = migration.ID]
    ELSE
      LET prevMigration == IF ix = 0 THEN Version(0, 0)
                           ELSE Version(ms[ix].ID, ms[ix].Description)
          r == SetVersion(st.ledger, prevMigration.ID,
                          prevMigration.Description,
                          migration.ID \notin storeFail)
          done == [base EXCEPT !.actOk = TRUE, !.wrote = ~r.err,
                               !.target = prevMigration.ID]
      IN
      IF r.err
      THEN [st EXCEPT !.step = done,
                      !.call.invoked = Append(@, migration.ID),
                      !.call.ret = "write",
                      !.call.failId = migration.ID]
      ELSE DownSecondLoop(ms, ix - 1, p + 1, nLeft, cv,
                          [st EXCEPT !.step = done, !.ledger = r.ledger,
                                     !.call.invoked = Append(@, migration.ID),
                                     !.call.written =
                                        Append(@, prevMigration.ID)],
                          actFail, storeFail)

\* The first loop is over: the second loop runs with what is left of n,
\* then Down returns.
DownReturn(actFail, storeFail) ==
  /\ pc = "down"
  /\ (i > Len(migrations) \/ n <= 0)
  /\ LET st == DownSecondLoop(migrations, Len(migrations) - 1, 0, n, curVer,
                              [ledger |-> ledger, step |-> step,
                               call |-> call],
                              actFail, storeFail)
     IN
     /\ ledger' = st.ledger
     /\ step' = st.step
     /\ call' = IF st.call.ret = "running"
                THEN [st.call EXCEPT !.ret = "ok"]
                ELSE st.call
  /\ pc' = "idle"
  /\ n' = 0
  /\ i' = 1
  /\ UNCHANGED <<supplied, migrations, curVer, prev, manual, upDone, redone>>

\* ----------------------------------------------- SetVersion (forced)
\* The exported SetVersion called by an administrator, outside Up / Down.
SetVersionCall(version, storeOk) ==
  /\ pc = "idle"
  /\ manual < MaxManual
  /\ manual' = manual + 1
  /\ LET r == SetVersion(ledger, version, 0, storeOk) IN
     /\ ledger' = r.ledger
     /\ call' = [NewCall("set", version, ledger) EXCEPT
                   !.ret = IF r.err THEN "write" ELSE "ok",
                   !.written = IF r.err THEN <<>> ELSE <<version>>,
                   !.failId = IF r.err THEN version ELSE 0,
                   !.storeUp = storeOk]
  /\ prev' = Summary(call)
  /\ step' = NoStep
  /\ upDone' = {}
  /\ UNCHANGED <<supplied, migrations, pc, curVer, n, i, redone>>

Next ==
  \/ \E nArg \in NValues, readOk \in BOOLEAN : UpBegin(nArg, readOk)
  \/ \E actOk \in BOOLEAN, storeOk \in BOOLEAN : UpStep(actOk, storeOk)
  \/ UpReturn
  \/ \E nArg \in NValues, readOk \in BOOLEAN : DownBegin(nArg, readOk)
  \/ \E actOk \in BOOLEAN, storeOk \in BOOLEAN : DownStep(actOk, storeOk)
  \/ \E actFail \in 0..MaxId, storeFail \in 0..MaxId :
        DownReturn({actFail}, {storeFail})
  \/ \E version \in 0..MaxId, storeOk \in BOOLEAN :
        SetVersionCall(version, storeOk)

Spec == Init /\ [][Next]_vars

\* migrator.Version: the current database version.
MigratorVersion == CurrentVersion(ledger)

TypeOK ==
  /\ pc \in {"idle", "up", "down"}
  /\ n \in 0..MaxLen
  /\ i \in 1..(MaxLen + 1)
  /\ manual \in 0..MaxManual
  /\ call.ret \in {"running", "ok", "read", "action", "write"}
  /\ (pc = "idle") = (call.ret # "running")
  /\ \A k \in 1..Len(migrations) : migrations[k] \in Migration

\* ============================================================ properties
SetIds(ms) == {ms[k].ID : k \in 1..Len(ms)}

Max(S) == IF S = {} THEN 0 ELSE CHOOSE v \in S : \A w \in S : w <= v

\* The id registered immediately below id, 0 when there is none.
Predecessor(ms, id) == Max({v \in SetIds(ms) : v < id})

EveryMigrationReversible ==
  \A k \in 1..Len(migrations) : migrations[k].Up /\ migrations[k].Down

\* The version the running or most recent call read when it began.
StartVersion == CurrentVersion(call.startLedger)

\* The call returned (nil or an error) after reading the version.
Returned(kind) ==
  pc = "idle" /\ call.op = kind /\ call.ret \in {"ok", "action", "write"}

\* A loop iteration that invoked the action of its migration.
Invoked(kind) == step.op = kind /\ ~step.skipped

Eligible(ms, v) == {k \in 1..Len(ms) : ms[k].ID > v /\ ms[k].Up}

Pending(ms, v) == {k \in 1..Len(ms) : ms[k].ID > v}

Min2(a, b) == IF a < b THEN a ELSE b

\* The q lowest ids of S in ascending order.
RECURSIVE Lowest(_, _)
Lowest(S, q) ==
  IF q <= 0 \/ S = {} THEN <<>>
  ELSE LET lo == CHOOSE v \in S : \A w \in S : v <= w
       IN <<lo>> \o Lowest(S \ {lo}, q - 1)

\* C1: Up(AllAvailable) from an empty ledger followed by Down(AllAvailable),
\* both returning nil, over a set whose migrations all have an up and a down
\* action, leaves Version() at 0.
C1_RoundTrip ==
  (/\ pc = "idle"
   /\ call.op = "down" /\ call.nReq = AllAvailable /\ call.ret = "ok"
   /\ prev.kind = "upAllOk" /\ prev.startEmpty
   /\ EveryMigrationReversible)
  => MigratorVersion = 0

\* C2: after a Down step whose down action and ledger write both succeeded,
\* Version() is the id registered immediately below the step's migration
\* (0 for the lowest one).
C2_DownRecordsPredecessor ==
  (Invoked("down") /\ step.actOk /\ step.wrote)
  => MigratorVersion = Predecessor(migrations, step.id)

\* C3: after an Up step whose up action and ledger write both succeeded,
\* Version() is exactly the id of the step's migration, whatever earlier
\* Up, Down or SetVersion calls have written.
C3_UpStepSetsVersion ==
  (Invoked("up") /\ step.actOk /\ step.wrote) => MigratorVersion = step.id

C3_Witness ==
  /\ Invoked("up") /\ step.actOk /\ step.wrote
  /\ manual > 0
  /\ Len(step.ledgerBefore) >= 2
  /\ MigratorVersion = step.id

\* C4: for n > 0 an Up(n) that returns nil has invoked exactly the
\* min(n, number of eligible migrations) eligible migrations of lowest id
\* (eligible: id above the version read, up action present); a skipped
\* migration costs no budget.
C4_SkipsKeepBudget ==
  (Returned("up") /\ call.ret = "ok" /\ call.nReq > 0)
  => LET E == Eligible(migrations, StartVersion)
     IN call.invoked =
          Lowest({migrations[k].ID : k \in E},
                 Min2(call.nReq, Cardinality(E)))

\* C5: an Up(n) with n above the number of pending migrations (id above the
\* version read) that returns nil has invoked the same actions and left the
\* same ledger as Up(AllAvailable) does from the same ledger.
C5_LargeBudgetIsAll ==
  (/\ Returned("up") /\ call.ret = "ok"
   /\ call.nReq > Cardinality(Pending(migrations, StartVersion)))
  => LET all == UpInvokes(Sort(migrations, 1), 1,
                          Clamp(AllAvailable, Len(migrations)), StartVersion)
     IN /\ call.invoked = all
        /\ LedgerIds(ledger) = LedgerIds(call.startLedger) \cup
                                 {all[k] : k \in 1..Len(all)}

\* C6: Up never invokes the up action of a migration whose id is at or
\* below the version read when the call began (0 for an empty ledger).
C6_UpOnlyAboveVersion ==
  call.op = "up" =>
    \A k \in 1..Len(call.invoked) : call.invoked[k] > StartVersion

C6_Witness ==
  /\ call.op = "up"
  /\ call.invoked # <<>>
  /\ StartVersion > 0
  /\ \E k \in 1..Len(migrations) : migrations[k].ID = StartVersion

C8_UpActionFailure ==
  (Invoked("up") /\ ~step.actOk)
  => /\ pc = "idle"
     /\ call.ret = "action"
     /\ ledger = step.ledgerBefore
     /\ step.id \notin LedgerIds(ledger)
     /\ MigratorVersion = step.verBefore
     /\ call.invoked[Len(call.invoked)] = step.id
     /\ (Len(call.invoked) = 1 => MigratorVersion = StartVersion)

C8_Witness ==
  /\ Invoked("up") /\ ~step.actOk
  /\ Len(call.invoked) >= 2
  /\ step.id < Max(SetIds(migrations))
  /\ MigratorVersion = step.verBefore

\* C9: a down action that fails ends the Down call with an error, leaves
\* the ledger exactly as it was before that step, and is the last action
\* the call invokes.
C9_DownActionFailure ==
  (Invoked("down") /\ ~step.actOk)
  => /\ pc = "idle"
     /\ call.ret = "action"
     /\ ledger = step.ledgerBefore
     /\ call.invoked[Len(call.invoked)] = step.id

C9_Witness ==
  /\ Invoked("down") /\ ~step.actOk
  /\ Len(call.invoked) >= 2
  /\ \E k \in 1..Len(migrations) :
        migrations[k].ID < step.id /\ migrations[k].ID > StartVersion
                                   /\ migrations[k].Down
  /\ ledger = step.ledgerBefore

\* C10: after an Up call that a failed ledger write aborted at migration m
\* (its up action had succeeded), the next Up call invokes m's up action
\* again.
C10_WriteFailureReinvoked ==
  (Returned("up") /\ prev.kind = "upWriteFailed")
  => \E k \in 1..Len(call.invoked) : call.invoked[k] = prev.id

\* C11: once an operation has returned nil, Version() (the greatest id in
\* the ledger) is the id of the most recently written ledger record.
C11_VersionIsLatestRecord ==
  (pc = "idle" /\ call.ret = "ok" /\ ledger # <<>>)
  => MigratorVersion = ledger[Len(ledger)].ID

\* C12: the Up call that immediately follows an Up(AllAvailable) that
\* returned nil invokes no up action and writes no record, whatever its n.
C12_UpAfterUpAllIsIdle ==
  (call.op = "up" /\ prev.kind = "upAllOk")
  => /\ call.invoked = <<>>
     /\ call.written = <<>>
     /\ ledger = call.startLedger
     /\ MigratorVersion = StartVersion

C12_Witness ==
  /\ Returned("up") /\ call.ret = "ok"
  /\ prev.kind = "upAllOk"
  /\ call.nReq > 0
  /\ Len(ledger) >= 2
  /\ \E k \in 1..Len(migrations) : migrations[k].ID > MigratorVersion

\* C13: an administrative SetVersion made while the store is reachable
\* returns nil for every id, also one the ledger already holds, and the
\* ledger grows by exactly one record.
C13_SetVersionAlwaysAppends ==
  (pc = "idle" /\ call.op = "set" /\ call.storeUp)
  => /\ call.ret = "ok"
     /\ Len(ledger) = Len(call.startLedger) + 1

IsPrefix(a, b) == Len(a) <= Len(b) /\ \A k \in 1..Len(a) : a[k] = b[k]

\* C14: no step of an Up or Down call, successful or failed, modifies or
\* deletes a ledger record that existed before it: the ledger before the
\* step is a prefix of the ledger after it.
C14_AppendOnly ==
  [][call'.op \in {"up", "down"} => IsPrefix(ledger, ledger')]_vars

C14_Witness ==
  /\ call.op = "down"
  /\ call.startLedger # <<>>
  /\ Len(call.written) >= 1
  /\ Len(ledger) > Len(call.startLedger)
  /\ IsPrefix(call.startLedger, ledger)

\* C15: for n > 0 one Up(n) or Down(n) call invokes at most n actions and
\* writes at most n ledger records; whatever n, a call invokes at most as
\* many actions as the set has migrations.
C15_BudgetBound ==
  call.op \in {"up", "down"} =>
    /\ call.nReq > 0 => /\ Len(call.invoked) <= call.nReq
                        /\ Len(call.written) <= call.nReq
    /\ Len(call.invoked) <= Len(migrations)
    /\ Len(call.written) <= Len(call.invoked)

C15_Witness ==
  /\ pc = "idle" /\ call.op = "down" /\ call.ret = "ok"
  /\ call.nReq = 1
  /\ Len(call.invoked) = 1 /\ Len(call.written) = 1
  /\ Cardinality({k \in 1..Len(migrations) :
                    migrations[k].ID > StartVersion /\ migrations[k].Down}) >= 2

\* C16: Version() after an Up call, returned nil or aborted, is at least
\* the version the call read, and Version() after a Down call is at most
\* the version the call read.
C16_MonotonePerDirection ==
  /\ Returned("up") => MigratorVersion >= StartVersion
  /\ Returned("down") => MigratorVersion <= StartVersion

StrictlyAscending(q) == \A k \in 1..(Len(q) - 1) : q[k] < q[k + 1]

StrictlyDescending(q) == \A k \in 1..(Len(q) - 1) : q[k] > q[k + 1]

\* C17: the up actions one Up call invokes come in strictly ascending id
\* order and the down actions one Down call invokes in strictly descending
\* id order, whatever order earlier calls left the set in.
C17_OrderWithinCall ==
  /\ call.op = "up" => StrictlyAscending(call.invoked)
  /\ call.op = "down" => StrictlyDescending(call.invoked)

C17_Witness ==
  /\ call.op = "down"
  /\ Len(call.invoked) >= 2
  /\ StrictlyDescending(call.invoked)
  /\ prev.kind = "upWriteFailed"

\* C18: over consecutive Up calls (no Down, no SetVersion, no failed ledger
\* write in between) no up action returns nil twice for the same migration;
\* and the Up(AllAvailable) that follows an Up aborted by the failing up
\* action of m, and itself returns nil, invokes the up actions of m and of
\* every migration above m, and of none below m.
C18_AtMostOnceAndResume ==
  /\ ~redone
  /\ (/\ Returned("up") /\ call.ret = "ok" /\ call.nReq = AllAvailable
      /\ prev.kind = "upActionFailed")
     => LET R == {migrations[k].ID : k \in
                    {j \in 1..Len(migrations) :
                       migrations[j].ID >= prev.id /\ migrations[j].Up}}
        IN call.invoked = Lowest(R, Cardinality(R))

C18_Witness ==
  /\ Returned("up") /\ call.ret = "ok" /\ call.nReq = AllAvailable
  /\ prev.kind = "upActionFailed"
  /\ Len(call.invoked) >= 2
  /\ call.invoked[1] = prev.id
  /\ \E k \in 1..Len(migrations) :
        migrations[k].ID < prev.id /\ migrations[k].ID \in upDone
  /\ ~redone

RECURSIVE ById(_, _)
ById(S, direction) ==
  IF S = {} THEN <<>>
  ELSE LET m == CHOOSE x \in S :
                  \A y \in S : IF direction = -1 THEN y.ID <= x.ID
                                                  ELSE x.ID <= y.ID
       IN <<m>> \o ById(S \ {m}, direction)

SuppliedSet == {supplied[k] : k \in 1..Len(supplied)}

\* While a call runs, the slice its loop walks depends on the set of
\* migrations only.
WalkedOrderFromSetOnly ==
  /\ pc = "up" => migrations = ById(SuppliedSet, 1)
  /\ pc = "down" => migrations = ById(SuppliedSet, -1)

\* C20: the slice an Up or Down call walks, and with it the actions invoked
\* and the records written, depends on the set of migrations and not on
\* the order handed to NewMigrate; and no step changes the caller's slice.
C20_SuppliedOrderIrrelevant ==
  [](WalkedOrderFromSetOnly) /\ [][supplied' = supplied]_vars

C20_Witness ==
  /\ pc = "down"
  /\ Len(supplied) = 3
  /\ supplied # ById(SuppliedSet, 1)
  /\ supplied # ById(SuppliedSet, -1)
  /\ call.invoked # <<>>
  /\ migrations # supplied
====
